---- MODULE Spec2Model ----
(***************************************************************************)
(* SLIM (replay/models/slim.py): construction, training (_fit and the      *)
(* per-item slim_row run by the grouped apply), the cached similarity      *)
(* table, its release (_clear_cache) and scoring (_predict,                *)
(* _predict_pairs).                                                        *)
(*                                                                         *)
(* Numbers stand for floats: only order, sums and equality are used.       *)
(* An optional value is None (the empty tuple) or Some(x) (a 1-tuple).     *)
(***************************************************************************)
EXTENDS Integers, Sequences, FiniteSets, TLC

\* ------------------------------------------------------------------ bounds
MaxLog == 2     \* records in a training log
MaxRel == 2     \* relevance values 1..MaxRel
MaxCoef == 1    \* coefficient values the solver may return: 0..MaxCoef
MaxHist == 2    \* records in a history log given to scoring
MaxList == 2    \* rows in the users / items / pairs given to scoring
MaxReg == 3     \* constructor arguments beta, lambda_ in -MaxReg..MaxReg

Users == {0, 1}       \* user indices, 0 .. users_count - 1
Items == {0, 1, 2}    \* item indices, 0 .. items_count - 1
Workers == {1, 2}     \* python workers (tasks) of one grouped apply

None == <<>>
Some(x) == <<x>>
Val(o) == o[1]

SeqsUpTo(S, n) == UNION {[1..k -> S] : k \in 0..n}

\* ------------------------------------------------------------ data model
Records(R) == [user_idx : Users, item_idx : Items, relevance : R]
Rec(u, i, r) == [user_idx |-> u, item_idx |-> i, relevance |-> r]
Logs == SeqsUpTo(Records(1..MaxRel), MaxLog)

Cells == Users \X Items
ZeroMatrix == [c \in Cells |-> 0]
ZeroVector == [j \in Items |-> 0]

\* The constructor arguments tried: beta, lambda_ below, at and above 0;
\* seed None or an integer.
Betas == -MaxReg..MaxReg
Lambdas == -MaxReg..MaxReg
Seeds == {None, Some(0), Some(1)}

NoError == [type |-> "", msg |-> <<>>]

VARIABLES
    obj,                 \* "new", "constructed", or "raised" (__init__ raised)
    ctor_args,           \* the arguments __init__ was called with
    beta, lambda_, seed, \* the attributes: None while unset, else Some(value)
    err,                 \* the error the last call raised, NoError if none
    pandas_log,          \* _fit: the training log as collected
    interactions_matrix, \* _fit: the matrix slim_row closes over
    similarity,          \* the attribute: None, or Some(groups of the apply)
    cached,              \* the similarity frame is marked for caching
    cacheData,           \* the cached rows, None while not materialised
    sharing,             \* TRUE: all workers mutate one matrix instance
    job,                 \* "idle" or "running": the grouped apply
    todo,                \* worker -> groups still to run
    pcw,                 \* worker -> position inside slim_row
    idx,                 \* worker -> slim_row's idx
    column,              \* worker -> slim_row's column / column_arr
    fitX,                \* worker -> the matrix passed to regression.fit
    M,                   \* instance -> that instance's interactions_matrix
    coef_,               \* instance -> that instance's regression.coef_
    out,                 \* rows the apply has produced so far
    evalTable,           \* rows of an evaluation not kept by the cache
    query,               \* the arguments of the last scoring call, None if none
    recs,                \* rows the last scoring returned, None if none
    reads,               \* inputs the last scoring call read
    memo,                \* answers the seeded solver has given
    lastTable,           \* rows of the last evaluation of this log's frame
    runs,                \* evaluations of this log's frame so far, up to 2
    scored               \* a scoring has returned rows read from the cache

driver == <<obj, ctor_args, beta, lambda_, seed, err>>
trained == <<pandas_log, interactions_matrix, similarity>>
cache == <<cached, cacheData>>
applyv == <<job, todo, pcw, idx, column, fitX, M, coef_, out>>
scoring == <<query, recs, reads>>
history == <<memo, lastTable, runs, scored>>
vars == <<driver, trained, cache, sharing, applyv, evalTable, scoring, history>>

\* ------------------------------------------------- _fit: matrix building
\* csc_matrix((data, (row, col)), shape): the records are taken as COO
\* triplets and entries with the same (row, col) are added up when the
\* matrix is converted to compressed columns.
RECURSIVE coo_fold(_, _)
coo_fold(log, k) ==
    IF k = 0 THEN ZeroMatrix
    ELSE LET m == coo_fold(log, k - 1)
             c == <<log[k].user_idx, log[k].item_idx>>
         IN  [m EXCEPT ![c] = @ + log[k].relevance]

RECURSIVE coo_overwrite(_, _)
coo_overwrite(log, k) ==
    IF k = 0 THEN ZeroMatrix
    ELSE LET m == coo_overwrite(log, k - 1)
             c == <<log[k].user_idx, log[k].item_idx>>
         IN  [m EXCEPT ![c] = log[k].relevance]

csc_matrix_overwrite(log) == coo_overwrite(log, Len(log))

csc_matrix(log) == coo_fold(log, Len(log))

\* createDataFrame(pandas_log.item_idx).groupby("item_id_one"): one group
\* per distinct item of the log.
Groups(log) == {log[k].item_idx : k \in DOMAIN log}

\* --------------------------------------------------- slim_row's pieces
\* interactions_matrix[:, idx]
ColumnOf(m, i) == [u \in Users |-> m[<<u, i>>]]

\* interactions_matrix[interactions_matrix[:, idx].nonzero()[0], idx] = 0
ZeroColumn_skip(m, i) == m

ZeroColumn(m, i) ==
    [c \in Cells |-> IF c[2] = i /\ m[c] # 0 THEN 0 ELSE m[c]]

\* interactions_matrix[:, idx] = column
SetColumn_skip(m, i, col) == m

SetColumn(m, i, col) ==
    [c \in Cells |-> IF c[2] = i THEN col[c[1]] ELSE m[c]]

IsZeroColumn(m, i) == \A u \in Users : m[<<u, i>>] = 0

\* ElasticNet(alpha, l1_ratio, fit_intercept=False, positive=True,
\* selection="random", random_state=seed).fit(X, y): the solver is opaque.
\* What is used of it: coefficients are never negative (positive=True); a
\* feature whose column is all zero keeps the coefficient 0, and so does
\* every feature when the target is all zero (lambda_ > 0 makes the L1
\* penalty strictly positive, and coordinate descent starts from 0).
ElasticNetFits(X, y) ==
    {c \in [Items -> 0..MaxCoef] :
        /\ \A j \in Items : IsZeroColumn(X, j) => c[j] = 0
        /\ (\A u \in Users : y[u] = 0) => c = ZeroVector}

\* With an integer random_state every fit reseeds the generator, so the
\* fit is a function of (X, y): the answer given once is given again.
\* With random_state=None the global generator is used and it is not.
Remembered(X, y) == {t \in memo : t[1] = X /\ t[2] = y}

regression_fit_unseeded(X, y) == ElasticNetFits(X, y)

regression_fit(X, y) ==
    IF seed # None /\ Val(seed) # None /\ Remembered(X, y) # {}
    THEN {t[3] : t \in Remembered(X, y)}
    ELSE ElasticNetFits(X, y)

\* good_idx = np.argwhere(coef_ > 0); one row per good index.
good_idx_nonneg(coef) == {j \in Items : coef[j] >= 0}

good_idx(coef) == {j \in Items : coef[j] > 0}

similarity_row(i, coef) ==
    {[item_id_one |-> i, item_id_two |-> j, similarity |-> coef[j]] :
        j \in good_idx(coef)}

\* ------------------------------------------------------------- scoring
\* The frames are bags of rows: a sequence of rows, or (the similarity
\* table, whose (item_id_one, item_id_two) keys are distinct) a set.
\* condition is the set of column pairs the last join equates.

\* self.__str__(): the name of the model's class.
__str__ == "SLIM"

RECURSIVE SumSimilarity(_)
SumSimilarity(S) ==
    IF S = {} THEN 0
    ELSE LET t == CHOOSE x \in S : TRUE
         IN  t[3].similarity + SumSimilarity(S \ {t})

\* users.join(log).join(self.similarity).join(filter_df, condition)
\* .groupby("user_idx", "item_id_two").agg(sum("similarity"))
\* One joined row per tuple (users row, log row, table row, filter row).
JoinedRow(users, log, filter_df, t) ==
    [user |-> users[t[1]],
     user_idx |-> log[t[2]].user_idx,
     item_idx |-> log[t[2]].item_idx,
     item_id_one |-> t[3].item_id_one,
     item_id_two |-> t[3].item_id_two]

JoinAndSum_unfiltered(log, filter_df, condition, users, table) ==
    LET joined ==
            {t \in (DOMAIN users) \X (DOMAIN log) \X table :
                /\ users[t[1]] = log[t[2]].user_idx
                /\ log[t[2]].item_idx = t[3].item_id_one}
        key(t) == <<log[t[2]].user_idx, t[3].item_id_two>>
    IN  {[user_idx |-> k[1], item_idx |-> k[2],
          relevance |-> SumSimilarity({t \in joined : key(t) = k})] :
            k \in {key(t) : t \in joined}}

JoinAndSum(log, filter_df, condition, users, table) ==
    LET joined ==
            {t \in (DOMAIN users) \X (DOMAIN log) \X table \X (DOMAIN filter_df) :
                /\ users[t[1]] = log[t[2]].user_idx
                /\ log[t[2]].item_idx = t[3].item_id_one
                /\ \A p \in condition :
                       JoinedRow(users, log, filter_df, t)[p[1]]
                           = filter_df[t[4]][p[2]]}
        key(t) == <<log[t[2]].user_idx, t[3].item_id_two>>
    IN  {[user_idx |-> k[1], item_idx |-> k[2],
          relevance |-> SumSimilarity({t \in joined : key(t) = k})] :
            k \in {key(t) : t \in joined}}

\* The outcome of a scoring call: the error raised (NoError if none), the
\* rows returned (None when it raised), the inputs read.
_predict_pairs_inner_unchecked(log, filter_df, condition, users, table) ==
    [err |-> NoError,
     recs |-> Some(JoinAndSum(IF log = None THEN <<>> ELSE Val(log),
                              filter_df, condition, users, table)),
     reads |-> {"users", "log", "similarity", "filter_df"}]

_predict_pairs_inner(log, filter_df, condition, users, table) ==
    IF log = None
    THEN [err |-> [type |-> "ValueError",
                   msg |-> <<"predict", __str__, "log">>],
          recs |-> None, reads |-> {}]
    ELSE [err |-> NoError,
          recs |-> Some(JoinAndSum(Val(log), filter_df, condition, users, table)),
          reads |-> {"users", "log", "similarity", "filter_df"}]

\* pairs.select("user_idx").distinct()
RECURSIVE DistinctUsers(_)
DistinctUsers(pairs) ==
    IF pairs = <<>> THEN <<>>
    ELSE LET front == DistinctUsers(SubSeq(pairs, 1, Len(pairs) - 1))
             u == pairs[Len(pairs)].user_idx
         IN  IF \E k \in DOMAIN front : front[k] = u THEN front
             ELSE Append(front, u)

\* items.withColumnRenamed("item_idx", "item_idx_filter")
ItemsFilter(items) == [k \in DOMAIN items |-> [item_idx_filter |-> items[k]]]

\* pairs with user_idx, item_idx renamed user_idx_filter, item_idx_filter
PairsFilter(pairs) ==
    [k \in DOMAIN pairs |-> [user_idx_filter |-> pairs[k].user_idx,
                             item_idx_filter |-> pairs[k].item_idx]]

predict_outcome(log, users, items, table) ==
    _predict_pairs_inner(log, ItemsFilter(items),
                         {<<"item_id_two", "item_idx_filter">>},
                         users, table)

predict_pairs_outcome(pairs, log, table) ==
    _predict_pairs_inner(log, PairsFilter(pairs),
                         {<<"user_idx", "user_idx_filter">>,
                          <<"item_id_two", "item_idx_filter">>},
                         DistinctUsers(pairs), table)

\* ------------------------------------------------------------ __init__
\* if beta < 0 or lambda_ <= 0: raise ValueError(...)
init_rejects_strict(b, l) == b <= 0 \/ l <= 0

init_rejects(b, l) == b < 0 \/ l <= 0

Fresh ==
    /\ obj = "new" /\ ctor_args = None
    /\ beta = None /\ lambda_ = None /\ seed = None
    /\ err = NoError
    /\ pandas_log = <<>> /\ interactions_matrix = ZeroMatrix
    /\ similarity = None
    /\ cached = FALSE /\ cacheData = None
    /\ job = "idle"
    /\ todo = [w \in Workers |-> {}]
    /\ pcw = [w \in Workers |-> "idle"]
    /\ idx = [w \in Workers |-> -1]
    /\ column = [w \in Workers |-> [u \in Users |-> 0]]
    /\ fitX = [w \in Workers |-> ZeroMatrix]
    /\ M = [m \in Workers |-> ZeroMatrix]
    /\ coef_ = [m \in Workers |-> ZeroVector]
    /\ out = {}
    /\ evalTable = None
    /\ query = None /\ recs = None /\ reads = {}
    /\ memo = {} /\ lastTable = None /\ runs = 0 /\ scored = FALSE

Construct(b, l, s) ==
    /\ obj = "new"
    /\ ctor_args' = Some([beta |-> b, lambda_ |-> l, seed |-> s])
    /\ IF init_rejects(b, l)
       THEN /\ obj' = "raised"
            /\ err' = [type |-> "ValueError", msg |-> <<"regularization">>]
            /\ UNCHANGED <<beta, lambda_, seed>>
       ELSE /\ obj' = "constructed"
            /\ beta' = Some(b) /\ lambda_' = Some(l) /\ seed' = Some(s)
            /\ err' = NoError
    /\ UNCHANGED <<trained, cache, sharing, applyv, evalTable, scoring, history>>

\* The driver is inside a scoring call whose frame is being evaluated.
InScoring == job = "running" \/ evalTable # None

\* ---------------------------------------------------------------- _fit
\* Builds the matrix, defines the grouped apply (not run yet: the frame is
\* lazy) and marks the frame for caching.
_fit(log) ==
    /\ obj = "constructed" /\ ~InScoring
    /\ pandas_log' = log
    /\ interactions_matrix' = csc_matrix(log)
    /\ similarity' = Some(Groups(log))
    /\ cached' = TRUE /\ cacheData' = None
    /\ err' = NoError
    /\ query' = None /\ recs' = None /\ reads' = {}
    /\ IF similarity # None /\ pandas_log = log
       THEN UNCHANGED <<memo, lastTable, runs>>
       ELSE memo' = {} /\ lastTable' = None /\ runs' = 0
    /\ scored' = FALSE
    /\ UNCHANGED <<obj, ctor_args, beta, lambda_, seed, sharing, applyv, evalTable>>

\* ------------------------------------------- the grouped apply (slim_row)
\* The matrix instance and regression object worker w uses: its own
\* deserialised copy of the closure, or the one shared instance.
Inst_shared(w) == 1

Inst(w) == IF sharing THEN 1 ELSE w

\* An evaluation of the similarity frame starts: the groups are dealt to
\* the workers, each instance starts as the matrix _fit built.
StartJob(assign) ==
    /\ obj = "constructed" /\ similarity # None
    /\ job = "idle" /\ cacheData = None /\ evalTable = None
    /\ job' = "running"
    /\ todo' = [w \in Workers |-> {g \in Val(similarity) : assign[g] = w}]
    /\ M' = [m \in Workers |-> interactions_matrix]
    /\ coef_' = [m \in Workers |-> ZeroVector]
    /\ out' = {}
    /\ idx' = [w \in Workers |-> -1]
    /\ column' = [w \in Workers |-> [u \in Users |-> 0]]
    /\ fitX' = [w \in Workers |-> ZeroMatrix]
    /\ err' = NoError /\ query' = None /\ recs' = None /\ reads' = {}
    /\ UNCHANGED <<obj, ctor_args, beta, lambda_, seed, trained, cache,
                   sharing, pcw, evalTable, history>>

\* idx = int(pandas_df["item_id_one"][0]); column = interactions_matrix[:, idx]
Copy(w, g) ==
    /\ job = "running" /\ pcw[w] = "idle" /\ g \in todo[w]
    /\ todo' = [todo EXCEPT ![w] = @ \ {g}]
    /\ idx' = [idx EXCEPT ![w] = g]
    /\ column' = [column EXCEPT ![w] = ColumnOf(M[Inst(w)], g)]
    /\ pcw' = [pcw EXCEPT ![w] = "copied"]
    /\ UNCHANGED <<driver, trained, cache, sharing, job, fitX, M, coef_, out,
                   evalTable, scoring, history>>

Zero(w) ==
    /\ job = "running" /\ pcw[w] = "copied"
    /\ M' = [M EXCEPT ![Inst(w)] = ZeroColumn(@, idx[w])]
    /\ pcw' = [pcw EXCEPT ![w] = "zeroed"]
    /\ UNCHANGED <<driver, trained, cache, sharing, job, todo, idx, column,
                   fitX, coef_, out, evalTable, scoring, history>>

\* regression.fit(interactions_matrix, column_arr)
Solve(w) ==
    /\ job = "running" /\ pcw[w] = "zeroed"
    /\ \E c \in regression_fit(M[Inst(w)], column[w]) :
        /\ coef_' = [coef_ EXCEPT ![Inst(w)] = c]
        /\ memo' = IF Val(seed) # None
                   THEN memo \cup {<<M[Inst(w)], column[w], c>>}
                   ELSE memo
    /\ fitX' = [fitX EXCEPT ![w] = M[Inst(w)]]
    /\ pcw' = [pcw EXCEPT ![w] = "solved"]
    /\ UNCHANGED <<driver, trained, cache, sharing, job, todo, idx, column, M,
                   out, evalTable, scoring, lastTable, runs, scored>>

Restore(w) ==
    /\ job = "running" /\ pcw[w] = "solved"
    /\ M' = [M EXCEPT ![Inst(w)] = SetColumn(@, idx[w], column[w])]
    /\ pcw' = [pcw EXCEPT ![w] = "restored"]
    /\ UNCHANGED <<driver, trained, cache, sharing, job, todo, idx, column,
                   fitX, coef_, out, evalTable, scoring, history>>

\* good_idx, good_values, the returned frame; slim_row returns.
Emit(w) ==
    /\ job = "running" /\ pcw[w] = "restored"
    /\ out' = out \cup similarity_row(idx[w], coef_[Inst(w)])
    /\ pcw' = [pcw EXCEPT ![w] = "idle"]
    /\ UNCHANGED <<driver, trained, cache, sharing, job, todo, idx, column,
                   fitX, M, coef_, evalTable, scoring, history>>

\* Every group has returned: the rows are the frame's; the cache keeps them
\* when the frame is marked, else they serve the one evaluation.
FinishJob ==
    /\ job = "running"
    /\ \A w \in Workers : pcw[w] = "idle" /\ todo[w] = {}
    /\ job' = "idle"
    /\ IF cached
       THEN cacheData' = Some(out) /\ evalTable' = None
       ELSE evalTable' = Some(out) /\ UNCHANGED cacheData
    /\ lastTable' = Some(out)
    /\ runs' = IF runs < 2 THEN runs + 1 ELSE runs
    /\ UNCHANGED <<driver, trained, cached, sharing, todo, pcw, idx, column,
                   fitX, M, coef_, out, scoring, memo, scored>>

\* -------------------------------------------------------- _clear_cache
\* if hasattr(self, "similarity"): self.similarity.unpersist()
_clear_cache_drop ==
    /\ obj = "constructed" /\ ~InScoring
    /\ similarity' = None
    /\ cached' = FALSE /\ cacheData' = None
    /\ err' = NoError /\ query' = None /\ recs' = None /\ reads' = {}
    /\ UNCHANGED <<obj, ctor_args, beta, lambda_, seed, pandas_log,
                   interactions_matrix, sharing, applyv, evalTable, history>>

_clear_cache ==
    /\ obj = "constructed" /\ ~InScoring
    /\ IF similarity # None
       THEN cached' = FALSE /\ cacheData' = None
       ELSE UNCHANGED cache
    /\ err' = NoError /\ query' = None /\ recs' = None /\ reads' = {}
    /\ UNCHANGED <<obj, ctor_args, beta, lambda_, seed, trained, sharing,
                   applyv, evalTable, history>>

\* ------------------------------------------------ _predict, _predict_pairs
\* The rows an evaluation of the similarity frame gives the scoring call.
Table == IF cacheData # None THEN cacheData ELSE evalTable

NoSimilarity ==
    [err |-> [type |-> "AttributeError", msg |-> <<__str__, "similarity">>],
     recs |-> None, reads |-> {}]

Scored(q, o) ==
    /\ query' = Some(q)
    /\ recs' = o.recs /\ err' = o.err /\ reads' = o.reads
    /\ evalTable' = IF o.err = NoError THEN None ELSE evalTable
    /\ scored' = (scored \/ (o.err = NoError /\ cacheData # None))
    /\ UNCHANGED <<obj, ctor_args, beta, lambda_, seed, trained, cache,
                   sharing, applyv, memo, lastTable, runs>>

CanScore(log) ==
    /\ obj = "constructed" /\ job = "idle"
    /\ IF log = None \/ similarity = None THEN evalTable = None
       ELSE Table # None

TableRows == IF Table = None THEN {} ELSE Val(Table)

_predict(log, users, items) ==
    /\ CanScore(log)
    /\ Scored([kind |-> "predict", log |-> log, users |-> users,
               filter |-> items],
              IF log # None /\ similarity = None THEN NoSimilarity
              ELSE predict_outcome(log, users, items, TableRows))

_predict_pairs(pairs, log) ==
    /\ CanScore(log)
    /\ Scored([kind |-> "predict_pairs", log |-> log, users |-> <<>>,
               filter |-> pairs],
              IF log # None /\ similarity = None THEN NoSimilarity
              ELSE predict_pairs_outcome(pairs, log, TableRows))

\* ------------------------------------------------------- specifications
Pair(u, i) == [user_idx |-> u, item_idx |-> i]

\* Training logs of the life cycle: the two-item, two-user log, a log with
\* one (user, item) recorded twice, a log with a single record.
TrainLogs ==
    {<<Rec(0, 0, 1), Rec(0, 1, 1), Rec(1, 1, 1)>>,
     <<Rec(0, 0, 1), Rec(0, 0, 2), Rec(1, 2, 1)>>,
     <<Rec(1, 1, 2)>>}

\* Scoring calls of the life cycle: with the training log as the history,
\* or with no log.
LifeLogs == {None, Some(pandas_log)}
LifeUsers == <<0, 1>>
LifeItems == <<0, 1, 2>>
LifePairs == <<Pair(0, 1), Pair(1, 0), Pair(0, 2)>>

\* Each worker process holds its own copy of the closure: what the grouped
\* apply does.
Init == Fresh /\ sharing = FALSE

\* Either that, or every worker is a thread on the one instance.
InitShared == Fresh /\ sharing \in BOOLEAN

\* Constructor arguments of the life cycle: one rejected, one accepted
\* (beta, lambda_), seed None or an integer.
LifeBetas == {-1, 0}
LifeLambdas == {1}
LifeSeeds == {None, Some(0)}

Next ==
    \/ \E b \in LifeBetas, l \in LifeLambdas, s \in LifeSeeds : Construct(b, l, s)
    \/ \E log \in TrainLogs : _fit(log)
    \/ \E assign \in [Items -> Workers] : StartJob(assign)
    \/ \E w \in Workers, g \in Items : Copy(w, g)
    \/ \E w \in Workers : Zero(w)
    \/ \E w \in Workers : Solve(w)
    \/ \E w \in Workers : Restore(w)
    \/ \E w \in Workers : Emit(w)
    \/ FinishJob
    \/ _clear_cache
    \/ \E log \in LifeLogs : _predict(log, LifeUsers, LifeItems)
    \/ \E log \in LifeLogs : _predict_pairs(LifePairs, log)

Spec == Init /\ [][Next]_vars

SpecShared == InitShared /\ [][Next]_vars

\* Construction alone, with every argument.
NextInit ==
    \E b \in Betas, l \in Lambdas, s \in Seeds : Construct(b, l, s)

SpecInit == Init /\ [][NextInit]_vars

\* The first training call of a model, with every log.
NextFit ==
    \/ \E b \in LifeBetas, l \in LifeLambdas, s \in LifeSeeds : Construct(b, l, s)
    \/ similarity = None /\ \E log \in Logs : _fit(log)

SpecFit == Init /\ [][NextFit]_vars

\* Scoring as a function of its inputs: a model trained on the log with
\* every item, whose table is cached, and one scoring call with every input.
ScoreTrainLog == <<Rec(0, 0, 1), Rec(0, 1, 1), Rec(1, 1, 1), Rec(1, 2, 1)>>

\* The rows a table may hold: two items similar to item 2, one to item 1,
\* one to item 0, with two different weights.
ScoreRowPool ==
    {[item_id_one |-> 0, item_id_two |-> 2, similarity |-> 1],
     [item_id_one |-> 1, item_id_two |-> 2, similarity |-> 2],
     [item_id_one |-> 0, item_id_two |-> 1, similarity |-> 1],
     [item_id_one |-> 2, item_id_two |-> 0, similarity |-> 2]}

ScoreTables == SUBSET ScoreRowPool

\* A frame is a bag of rows: its rows are listed in one order only.
Bags(S, n) ==
    {s \in SeqsUpTo(S, n) : \A k \in 1..(Len(s) - 1) : s[k] <= s[k + 1]}

\* The pairs (user, item), numbered.
PairNumbers == 0..(Cardinality(Users) * Cardinality(Items) - 1)
PairOf(n) == Pair(n \div Cardinality(Items), n % Cardinality(Items))
RecOf(n) == Rec(PairOf(n).user_idx, PairOf(n).item_idx, 1)

HistoryLogs ==
    {None} \cup {Some([k \in DOMAIN s |-> RecOf(s[k])]) :
                    s \in Bags(PairNumbers, MaxHist)}
UserLists == Bags(Users, MaxList)
ItemLists == Bags(Items, MaxList)
PairLists == {[k \in DOMAIN s |-> PairOf(s[k])] : s \in Bags(PairNumbers, MaxList)}

InitScore ==
    /\ obj = "constructed"
    /\ ctor_args = Some([beta |-> 0, lambda_ |-> 1, seed |-> None])
    /\ beta = Some(0) /\ lambda_ = Some(1) /\ seed = Some(None)
    /\ err = NoError
    /\ pandas_log = ScoreTrainLog
    /\ interactions_matrix = csc_matrix(ScoreTrainLog)
    /\ similarity = Some(Groups(ScoreTrainLog))
    /\ cached = TRUE
    /\ \E t \in ScoreTables :
        cacheData = Some(t) /\ lastTable = Some(t) /\ out = t
    /\ sharing = FALSE
    /\ job = "idle"
    /\ todo = [w \in Workers |-> {}]
    /\ pcw = [w \in Workers |-> "idle"]
    /\ idx = [w \in Workers |-> -1]
    /\ column = [w \in Workers |-> [u \in Users |-> 0]]
    /\ fitX = [w \in Workers |-> ZeroMatrix]
    /\ M = [m \in Workers |-> interactions_matrix]
    /\ coef_ = [m \in Workers |-> ZeroVector]
    /\ evalTable = None
    /\ query = None /\ recs = None /\ reads = {}
    /\ memo = {} /\ runs = 1 /\ scored = FALSE

NextScore ==
    \/ query = None /\ \E log \in HistoryLogs, users \in UserLists,
                          items \in ItemLists : _predict(log, users, items)
    \/ query = None /\ \E log \in HistoryLogs, pairs \in PairLists :
                          _predict_pairs(pairs, log)

SpecScore == InitScore /\ [][NextScore]_vars

\* =============================================================== claims
Seeded == seed # None /\ Val(seed) # None

Tables ==
    {out} \cup {Val(t) : t \in {cacheData, evalTable, lastTable} \ {None}}

\* ----------------------------------------------------------------- C1
\* similarity(h, c): the table's weight from h to c, 0 when it has no row.
Sim(T, h, c) ==
    LET R == {r \in T : r.item_id_one = h /\ r.item_id_two = c}
    IN  IF R = {} THEN 0 ELSE (CHOOSE r \in R : TRUE).similarity

Count(s, x) == Cardinality({k \in DOMAIN s : s[k] = x})

\* The sum of similarity(h, c) over the records (u, h) of the log.
RECURSIVE RecordSum(_, _, _, _, _)
RecordSum(T, l, k, u, c) ==
    IF k = 0 THEN 0
    ELSE RecordSum(T, l, k - 1, u, c)
         + (IF l[k].user_idx = u THEN Sim(T, l[k].item_idx, c) ELSE 0)

\* The sum of similarity(h, c) over the items h of a set.
RECURSIVE ItemSum(_, _, _)
ItemSum(T, H, c) ==
    IF H = {} THEN 0
    ELSE LET h == CHOOSE x \in H : TRUE
         IN  Sim(T, h, c) + ItemSum(T, H \ {h}, c)

HistoryItems(l, u) == {l[k].item_idx : k \in {j \in DOMAIN l : l[j].user_idx = u}}

\* How many times the call admits the candidate (u, c).
Admitted(q, u, c) ==
    IF q.kind = "predict"
    THEN Count(q.users, u) * Count(q.filter, c)
    ELSE Count(q.filter, Pair(u, c))

ReturnedRows == query # None /\ recs # None /\ cacheData # None

\* The users and the candidates of the call are sets: no row is repeated.
NoRepeats(s) == \A j, k \in DOMAIN s : s[j] = s[k] => j = k

\* C1 as stated: for users and candidates that are sets, scoring returns
\* exactly one row (u, c, relevance) for each admissible candidate with at
\* least one history item of u that has a table row to c, and the relevance
\* is the sum of similarity(h, c) over the items h of u's history, each
\* item counted once.
C1_EachItemOnce ==
    (/\ ReturnedRows
     /\ NoRepeats(Val(query).users)
     /\ NoRepeats(Val(query).filter)) =>
        LET q == Val(query)
            l == Val(q.log)
            T == Val(cacheData)
        IN  Val(recs) =
              {[user_idx |-> p[1], item_idx |-> p[2],
                relevance |-> ItemSum(T, HistoryItems(l, p[1]), p[2])] :
                  p \in {x \in Users \X Items :
                           /\ Admitted(q, x[1], x[2]) > 0
                           /\ \E h \in HistoryItems(l, x[1]) :
                                  Sim(T, h, x[2]) > 0}}

\* C1 amended: the same rows, and the relevance is the sum of
\* similarity(h, c) over the records (u, h) of the history log (an item in
\* n records of u counts n times), times the number of times u occurs in
\* users and c (or the pair) occurs in the candidate set.
C1_EachRecord ==
    ReturnedRows =>
        LET q == Val(query)
            l == Val(q.log)
            T == Val(cacheData)
            rel(u, c) == Admitted(q, u, c) * RecordSum(T, l, Len(l), u, c)
        IN  Val(recs) =
              {[user_idx |-> p[1], item_idx |-> p[2],
                relevance |-> rel(p[1], p[2])] :
                  p \in {x \in Users \X Items : rel(x[1], x[2]) > 0}}

\* A returned row sums two different history items of its user, and a
\* candidate admitted for that user is absent from the result.
C1_Witness ==
    /\ ReturnedRows
    /\ LET q == Val(query)
           l == Val(q.log)
           T == Val(cacheData)
       IN  \E r \in Val(recs) :
            /\ \E h1, h2 \in HistoryItems(l, r.user_idx) :
                 h1 # h2 /\ Sim(T, h1, r.item_idx) > 0 /\ Sim(T, h2, r.item_idx) > 0
            /\ \E c \in Items :
                 /\ Admitted(q, r.user_idx, c) > 0
                 /\ \A x \in Val(recs) : ~(x.user_idx = r.user_idx /\ x.item_idx = c)

\* ----------------------------------------------------------------- C2
NoSelfRows(T) == \A r \in T : r.item_id_one # r.item_id_two

\* C2: no table has a row with item_id_one = item_id_two, and the target's
\* own column is all zero in the matrix the solver was called with.
C2_NoSelfSimilarity ==
    /\ \A T \in Tables : NoSelfRows(T)
    /\ \A w \in Workers :
         pcw[w] = "solved" => \A u \in Users : fitX[w][<<u, idx[w]>>] = 0

\* A finished table with a row, for a target whose column is not zero.
C2_Witness ==
    /\ job = "idle" /\ cacheData # None
    /\ \E r \in Val(cacheData) :
         ~IsZeroColumn(interactions_matrix, r.item_id_one)

\* ----------------------------------------------------------------- C3
\* C3: every row has similarity > 0, and the rows slim_row returned for idx
\* are exactly one per index whose coefficient is > 0 (none when no
\* coefficient is).
C3_PositiveRows ==
    /\ \A T \in Tables : \A r \in T : r.similarity > 0
    /\ \A w \in Workers :
         (pcw[w] = "idle" /\ idx[w] # -1) =>
            \A j \in Items :
               (coef_[Inst(w)][j] > 0) <=>
                  (\E r \in out : /\ r.item_id_one = idx[w]
                                  /\ r.item_id_two = j
                                  /\ r.similarity = coef_[Inst(w)][j])

\* A finished table with a row for one target and none for another, whose
\* coefficients were all zero.
C3_Witness ==
    /\ job = "idle" /\ cacheData # None /\ Val(cacheData) # {}
    /\ \E w \in Workers :
         /\ idx[w] # -1 /\ coef_[Inst(w)] = ZeroVector
         /\ \A r \in Val(cacheData) : r.item_id_one # idx[w]

\* ----------------------------------------------------------------- C4
RECURSIVE SumRelevance(_, _)
SumRelevance(log, K) ==
    IF K = {} THEN 0
    ELSE LET k == CHOOSE x \in K : TRUE
         IN  log[k].relevance + SumRelevance(log, K \ {k})

RecordsOf(log, c) ==
    {k \in DOMAIN log : log[k].user_idx = c[1] /\ log[k].item_idx = c[2]}

Last(K) == CHOOSE k \in K : \A j \in K : j <= k

\* C4 as stated: a cell holds the relevance of the last record for it.
C4_LastWriteWins ==
    similarity # None =>
        \A c \in Cells :
            interactions_matrix[c] =
                IF RecordsOf(pandas_log, c) = {} THEN 0
                ELSE pandas_log[Last(RecordsOf(pandas_log, c))].relevance

\* C4 amended: a cell holds the sum of the relevances of all the records
\* for it (0 when there is none).
C4_Accumulates ==
    similarity # None =>
        \A c \in Cells :
            interactions_matrix[c]
                = SumRelevance(pandas_log, RecordsOf(pandas_log, c))

\* Two records for one cell, with different relevances.
C4_Witness ==
    /\ similarity # None
    /\ \E j, k \in DOMAIN pandas_log :
         /\ j < k
         /\ pandas_log[j].user_idx = pandas_log[k].user_idx
         /\ pandas_log[j].item_idx = pandas_log[k].item_idx
         /\ pandas_log[j].relevance # pandas_log[k].relevance

\* ----------------------------------------------------------------- C5
\* C5: outside the span from the zeroing to the restoring, the instance a
\* slim_row call works on equals the matrix as it was before the call;
\* inside it, only column idx differs, and it is zero.
C5_ColumnRestored ==
    job = "running" =>
        \A w \in Workers :
            M[Inst(w)] =
                IF pcw[w] \in {"zeroed", "solved"}
                THEN [c \in Cells |->
                        IF c[2] = idx[w] THEN 0 ELSE interactions_matrix[c]]
                ELSE interactions_matrix

\* A call for an item with a nonzero column has returned, and its worker
\* is inside its next call.
C5_Witness ==
    /\ job = "running"
    /\ \E w \in Workers :
         /\ pcw[w] = "solved"
         /\ \E r \in out : r.item_id_one # idx[w]
         /\ \A v \in Workers \ {w} : todo[v] = {} /\ idx[v] = -1

\* ----------------------------------------------------------------- C6
\* C6: __init__ raises exactly when beta < 0 or lambda_ <= 0, leaving every
\* attribute unset and no data read; otherwise it stores its arguments.
C6_Construction ==
    obj # "new" =>
        LET a == Val(ctor_args)
        IN  /\ (obj = "raised") <=> (a.beta < 0 \/ a.lambda_ <= 0)
            /\ obj = "raised" =>
                 /\ beta = None /\ lambda_ = None /\ seed = None
                 /\ err.type = "ValueError"
                 /\ similarity = None /\ pandas_log = <<>>
            /\ obj = "constructed" =>
                 /\ beta = Some(a.beta) /\ lambda_ = Some(a.lambda_)
                 /\ seed = Some(a.seed)
                 /\ err = NoError

\* Constructed with beta = 0.
C6_Witness == obj = "constructed" /\ beta = Some(0) /\ Val(lambda_) > 0

\* ----------------------------------------------------------------- C7
\* C7: a scoring call with no log raises an error naming the model, returns
\* no rows and has read none of its inputs, on both paths.
C7_NoLogRaises ==
    (query # None /\ Val(query).log = None) =>
        /\ err.type = "ValueError"
        /\ \E k \in DOMAIN err.msg : err.msg[k] = __str__
        /\ recs = None
        /\ reads = {}

\* The pairwise path was called with pairs and no log.
C7_Witness ==
    /\ query # None /\ Val(query).log = None
    /\ Val(query).kind = "predict_pairs" /\ Val(query).filter # <<>>
    /\ err # NoError

\* ----------------------------------------------------------------- C8
\* C8: with an integer seed, an evaluation of the training log's frame ends
\* with the rows the evaluation before it ended with, however the groups
\* were dealt to the workers and ordered.
C8_SeededRunsAgree ==
    [][(FinishJob /\ Seeded /\ lastTable # None) => Some(out) = lastTable]_vars

\* Two evaluations with an integer seed have ended, with rows.
C8_Witness ==
    /\ Seeded /\ job = "idle" /\ runs = 2
    /\ lastTable # None /\ Val(lastTable) # {}

\* ----------------------------------------------------------------- C9
\* C9: when each worker has its own instance (its calls on it one after
\* the other), the matrix every solver call gets is the original with only
\* column idx zeroed.
C9_SolverSeesOriginal ==
    ~sharing =>
        \A w \in Workers :
            pcw[w] = "solved" =>
                fitX[w] = [c \in Cells |->
                             IF c[2] = idx[w] THEN 0 ELSE interactions_matrix[c]]

\* Two calls interleaved on one instance: the solver for one item was
\* called with another item's column zeroed.
C9_Witness ==
    /\ sharing
    /\ \E w \in Workers :
         /\ pcw[w] = "solved"
         /\ \E c \in Cells :
              /\ c[2] # idx[w]
              /\ interactions_matrix[c] # 0
              /\ fitX[w][c] = 0

\* ---------------------------------------------------------------- C10
\* The rows the life cycle's scoring calls get from a table.
ScoreRows(T) ==
    <<predict_outcome(Some(pandas_log), LifeUsers, LifeItems, T).recs,
      predict_pairs_outcome(LifePairs, Some(pandas_log), T).recs>>

\* _clear_cache raises nothing, keeps the attribute, and changes nothing on
\* a model never trained.
ReleaseIsQuiet ==
    _clear_cache =>
        /\ err' = NoError
        /\ similarity' = similarity
        /\ similarity = None => UNCHANGED <<trained, cache>>

\* The evaluation a scoring call starts after the release ends with a table
\* that scores as the table before it did.
SameRowsAfterRelease ==
    (FinishJob /\ ~cached /\ scored) => ScoreRows(out) = ScoreRows(Val(lastTable))

ReleaseAlwaysCallable ==
    (obj = "constructed" /\ ~InScoring) => ENABLED _clear_cache

\* C10 as stated: the release is safe in every state, and scoring after it
\* returns the rows it returned before it.
C10_SameRows ==
    [][ReleaseIsQuiet /\ SameRowsAfterRelease]_vars

\* C10 amended: the release is safe in every state, and scoring after it
\* returns the rows it returned before it when the model has an integer
\* seed (with seed None the released table is fitted again, unseeded).
C10_SameRowsWhenSeeded ==
    /\ [][ReleaseIsQuiet /\ (Seeded => SameRowsAfterRelease)]_vars
    /\ []ReleaseAlwaysCallable

\* Scoring returned rows from the cache, the cache was released, and
\* scoring returned rows again.
C10_Witness ==
    /\ Seeded /\ scored /\ ~cached /\ similarity # None
    /\ recs # None /\ Val(recs) # {}

====
